---- MODULE Spec2Model ----
(***************************************************************************)
(* Pico y Placa Generator (ppgTAX.py).                                     *)
(*                                                                         *)
(* The script is modelled in three parts, each with its own specification: *)
(*   SpecCalendar  holiday parsing (l.79-82) and the month-bucketing loop  *)
(*                 (l.156-171);                                            *)
(*   SpecWeeks     group_by_consecutive_weeks (l.174-191), one loop        *)
(*                 iteration per step;                                     *)
(*   Spec          the Streamlit session: the plate widgets, the           *)
(*                 "Generate DataFrame" button and generate_records        *)
(*                 (l.195-241), with st.session_state.records_weekdays     *)
(*                 persisting across script runs.                          *)
(*                                                                         *)
(* Text that the code takes apart (the holiday text area, a plate text     *)
(* area) is a tuple of one-character strings; text that the code only      *)
(* builds (labels, record fields) is a string.  A date is a record         *)
(* [year, month, day], as datetime.date stores it.                         *)
(***************************************************************************)
EXTENDS Integers, Sequences, FiniteSets, TLC

VARIABLES
    \* ---- holiday parsing and month bucketing
    manual_holidays,    \* the holiday text area's value (tuple of characters)
    holidays,           \* l.79: the tokens after replace(" ", "").split(',')
    holiday_dates,      \* l.82: the parsed dates, Unset until l.82 has run
    startdate, enddate, \* l.151-152
    n,                  \* l.159: loop variable of the bucketing loop
    dates_by_month,     \* l.157: insertion-ordered dict, as a sequence of
                        \*        [label |-> month label, dates |-> sequence]
    cpc,                \* position in the script: "split", "convert",
                        \*        "bucket", "done", "aborted"
    \* ---- group_by_consecutive_weeks
    dates,              \* the argument
    idx,                \* number of dates the for loop has consumed
    weeks,              \* l.176
    current_week,       \* l.177
    wpc,                \* "loop", "flush", "returned"
    \* ---- the session
    plate_text,         \* the text the user of this session types into a plate
                        \*        text area
    widgets,            \* the plate text areas' values, by date (tuples of characters)
    plates_per_day,     \* l.195-219, rebuilt on every script run
    selected_categories,\* l.147
    EZtag_selected,     \* l.150
    EZvr_selected,      \* l.149
    records_weekdays,   \* st.session_state.records_weekdays
    button,             \* what st.button returned in the last script run
    message,            \* the message the last script run showed
    presses             \* number of runs with the button pressed so far

calVars  == <<manual_holidays, holidays, holiday_dates, startdate, enddate, n,
              dates_by_month, cpc>>
weekVars == <<dates, idx, weeks, current_week, wpc>>
sesVars  == <<plate_text, widgets, plates_per_day, selected_categories, EZtag_selected,
              EZvr_selected, records_weekdays, button, message,
              presses>>
vars     == <<calVars, weekVars, sesVars>>

\* a name the script has not bound yet (l.82 never yields an empty list:
\* split returns at least one token)
Unset == <<>>

(***************************************************************************)
(* datetime.date: proleptic Gregorian calendar arithmetic.                 *)
(***************************************************************************)
Date(y, m, d) == [year |-> y, month |-> m, day |-> d]

IsLeap(y) == (y % 4 = 0) /\ ((y % 100 /= 0) \/ (y % 400 = 0))

DaysInMonth(y, m) ==
    IF m = 2 THEN (IF IsLeap(y) THEN 29 ELSE 28)
    ELSE IF m \in {4, 6, 9, 11} THEN 30 ELSE 31

DaysBeforeYear(y) ==
    (y - 1) * 365 + ((y - 1) \div 4) - ((y - 1) \div 100) + ((y - 1) \div 400)

RECURSIVE DaysBeforeMonth(_, _)
DaysBeforeMonth(y, m) ==
    IF m = 1 THEN 0 ELSE DaysBeforeMonth(y, m - 1) + DaysInMonth(y, m - 1)

\* date.toordinal(): 1 for 0001-01-01
ToOrdinal(d) == DaysBeforeYear(d.year) + DaysBeforeMonth(d.year, d.month) + d.day

RECURSIVE YearOfOrdinal(_, _)
YearOfOrdinal(o, y) ==
    IF DaysBeforeYear(y + 1) < o THEN YearOfOrdinal(o, y + 1) ELSE y

RECURSIVE MonthOfDayInYear(_, _, _)
MonthOfDayInYear(y, m, k) ==
    IF k > DaysInMonth(y, m) THEN MonthOfDayInYear(y, m + 1, k - DaysInMonth(y, m))
    ELSE Date(y, m, k)

\* date.fromordinal()
FromOrdinal(o) ==
    LET y == YearOfOrdinal(o, ((o - 1) \div 366) + 1)
    IN  MonthOfDayInYear(y, 1, o - DaysBeforeYear(y))

\* date + timedelta(days=k)
AddDays(d, k) == FromOrdinal(ToOrdinal(d) + k)

\* (d2 - d1).days
DaysBetween(d1, d2) == ToOrdinal(d2) - ToOrdinal(d1)

\* date.weekday(): Monday is 0, Sunday is 6
Weekday(d) == (ToOrdinal(d) + 6) % 7

\* the constructor's range checks (ValueError otherwise)
IsRealDate(y, m, d) ==
    /\ y >= 1 /\ y <= 9999
    /\ m >= 1 /\ m <= 12
    /\ d >= 1 /\ d <= DaysInMonth(y, m)

(***************************************************************************)
(* strftime                                                                *)
(***************************************************************************)
DigitChar == <<"0", "1", "2", "3", "4", "5", "6", "7", "8", "9">>

Chr(k) == DigitChar[k + 1]

Pad2(k) == Chr((k \div 10) % 10) \o Chr(k % 10)

Pad4(k) == Pad2(k \div 100) \o Pad2(k % 100)

MonthNames == <<"January", "February", "March", "April", "May", "June", "July",
                "August", "September", "October", "November", "December">>

DayNames == <<"Monday", "Tuesday", "Wednesday", "Thursday", "Friday",
              "Saturday", "Sunday">>

\* strftime('%B %Y')
StrfMonthYear(d) == MonthNames[d.month] \o " " \o Pad4(d.year)

\* strftime('%A')
StrfDayName(d) == DayNames[Weekday(d) + 1]

\* strftime('%m')
StrfMonth(d) == Pad2(d.month)

\* strftime('%Y%m%d')
StrfYmd(d) == Pad4(d.year) \o Pad2(d.month) \o Pad2(d.day)

(***************************************************************************)
(* Text helpers                                                            *)
(***************************************************************************)
IsDigit(c) == \E k \in 1..10 : DigitChar[k] = c

DigitVal(c) == (CHOOSE k \in 1..10 : DigitChar[k] = c) - 1

RECURSIVE NumVal(_)
NumVal(s) ==
    IF s = <<>> THEN 0
    ELSE 10 * NumVal(SubSeq(s, 1, Len(s) - 1)) + DigitVal(s[Len(s)])

\* str.replace(c, "")
RECURSIVE RemoveChar(_, _)
RemoveChar(s, c) ==
    IF s = <<>> THEN <<>>
    ELSE IF Head(s) = c THEN RemoveChar(Tail(s), c)
    ELSE <<Head(s)>> \o RemoveChar(Tail(s), c)

\* str.split(c): always at least one token, empty tokens kept
RECURSIVE SplitAcc(_, _, _)
SplitAcc(s, c, cur) ==
    IF s = <<>> THEN <<cur>>
    ELSE IF Head(s) = c THEN <<cur>> \o SplitAcc(Tail(s), c, <<>>)
    ELSE SplitAcc(Tail(s), c, Append(cur, Head(s)))

Split(s, c) == SplitAcc(s, c, <<>>)

\* str.strip(), for the blank the inputs use
RECURSIVE LStrip(_)
LStrip(s) == IF s /= <<>> /\ Head(s) = " " THEN LStrip(Tail(s)) ELSE s

RECURSIVE RStrip(_)
RStrip(s) ==
    IF s /= <<>> /\ s[Len(s)] = " " THEN RStrip(SubSeq(s, 1, Len(s) - 1)) ELSE s

Strip(s) == LStrip(RStrip(s))

\* the tuple of characters as a string
RECURSIVE Str(_)
Str(s) == IF s = <<>> THEN "" ELSE Head(s) \o Str(Tail(s))

(***************************************************************************)
(* datetime.strptime(token, '%d%m%Y'), l.82.                               *)
(*                                                                         *)
(* The format becomes the regular expression                               *)
(*   (3[0-1]|[1-2]\d|0[1-9]|[1-9])(1[0-2]|0[1-9]|[1-9])(\d\d\d\d)          *)
(* matched at the start of the token by a backtracking matcher: the first  *)
(* way to read a day, a month and a four-digit year wins, two-digit        *)
(* readings before one-digit ones, the day before the month.  Text left    *)
(* over after the match, and a day the month does not have, are errors.    *)
(***************************************************************************)
\* the ValueError, as a value that is no date
ParseError == [error |-> "ValueError"]

MatchesDay(s) ==
    IF Len(s) = 2
    THEN \/ s[1] = "3" /\ s[2] \in {"0", "1"}
         \/ s[1] \in {"1", "2"} /\ IsDigit(s[2])
         \/ s[1] = "0" /\ IsDigit(s[2]) /\ s[2] /= "0"
    ELSE IsDigit(s[1]) /\ s[1] /= "0"

MatchesMonth(s) ==
    IF Len(s) = 2
    THEN \/ s[1] = "1" /\ s[2] \in {"0", "1", "2"}
         \/ s[1] = "0" /\ IsDigit(s[2]) /\ s[2] /= "0"
    ELSE IsDigit(s[1]) /\ s[1] /= "0"

\* the order in which the matcher tries the lengths of day and month
FieldLengths == << <<2, 2>>, <<2, 1>>, <<1, 2>>, <<1, 1>> >>

ReadsAs(tok, dl, ml) ==
    /\ Len(tok) >= dl + ml + 4
    /\ MatchesDay(SubSeq(tok, 1, dl))
    /\ MatchesMonth(SubSeq(tok, dl + 1, dl + ml))
    /\ \A i \in (dl + ml + 1)..(dl + ml + 4) : IsDigit(tok[i])

Strptime(tok) ==
    LET found == {k \in 1..4 : ReadsAs(tok, FieldLengths[k][1], FieldLengths[k][2])}
    IN  IF found = {} THEN ParseError
        ELSE LET k  == CHOOSE j \in found : \A j2 \in found : j <= j2
                 dl == FieldLengths[k][1]
                 ml == FieldLengths[k][2]
                 d  == NumVal(SubSeq(tok, 1, dl))
                 m  == NumVal(SubSeq(tok, dl + 1, dl + ml))
                 y  == NumVal(SubSeq(tok, dl + ml + 1, dl + ml + 4))
             IN  IF Len(tok) /= dl + ml + 4 THEN ParseError
                 ELSE IF ~IsRealDate(y, m, d) THEN ParseError
                 ELSE Date(y, m, d)

(***************************************************************************)
(* Inputs of the calendar part                                             *)
(***************************************************************************)
\* the digits of k, w characters wide
RECURSIVE NumChars(_, _)
NumChars(k, w) ==
    IF w = 0 THEN <<>> ELSE Append(NumChars(k \div 10, w - 1), Chr(k % 10))

Token(d, dw, m, mw, y, yw) == NumChars(d, dw) \o NumChars(m, mw) \o NumChars(y, yw)

HolidayTokens ==
    { Token(31, 2, 1, 2, 2025, 4),           \* 31012025
      Token(1, 2, 2, 2, 2025, 4),            \* 01022025
      Token(31, 2, 1, 1, 2025, 4),           \* 3112025: month without its zero
      Token(1, 1, 2, 1, 2025, 4),            \* 122025: day and month without
      <<>>,                                  \* empty string, trailing comma
      Token(31, 2, 2, 2, 2025, 4),           \* 31022025: no such day
      Token(3, 1, 12, 2, 2025, 4),           \* 3122025
      <<"3", "x">> \o Token(1, 2, 2025, 4, 0, 0), \* 3x012025
      Token(31, 2, 1, 2, 20255, 5),          \* 310120255
      Token(32, 2, 1, 2, 2025, 4) }          \* 32012025

MaxTokens == 2

WindowLen == 5

WindowStart == Date(2025, 1, 30)

WindowDates == {AddDays(WindowStart, k) : k \in 0..(WindowLen - 1)}

\* the text a user types: tokens separated by a comma and a blank
RECURSIVE JoinTokens(_)
JoinTokens(ts) ==
    IF Len(ts) = 1 THEN ts[1]
    ELSE ts[1] \o <<",", " ">> \o JoinTokens(Tail(ts))

HolidayTexts ==
    {JoinTokens(ts) : ts \in UNION {[1..k -> HolidayTokens] : k \in 1..MaxTokens}}

(***************************************************************************)
(* The calendar part of the script, l.78-82 and l.155-171                  *)
(***************************************************************************)
\* a day count that leaves the end date out (the "+ 1" of l.156 forgotten)
DayCountNoEnd(s, e) == DaysBetween(s, e)

\* l.156
DayCount(s, e) == DaysBetween(s, e) + 1

InSeq(x, s) == \E i \in 1..Len(s) : s[i] = x

\* l.168-171 on the insertion-ordered dict
AddToMonth(dbm, label, d) ==
    IF \E i \in 1..Len(dbm) : dbm[i].label = label
    THEN [i \in 1..Len(dbm) |->
            IF dbm[i].label = label
            THEN [dbm[i] EXCEPT !.dates = Append(@, d)]
            ELSE dbm[i]]
    ELSE Append(dbm, [label |-> label, dates |-> <<d>>])

\* what st.success, st.warning or st.error showed in a script run
NoMessage == [kind |-> "none", text |-> ""]

weekIdle ==
    /\ dates = <<>> /\ idx = 0 /\ weeks = <<>> /\ current_week = <<>>
    /\ wpc = "returned"

sesIdle ==
    /\ plate_text = <<>> /\ widgets = <<>> /\ plates_per_day = <<>> /\ selected_categories = <<>>
    /\ EZtag_selected = "LicensePlate"
    /\ EZvr_selected = "License Plate Number"
    /\ records_weekdays = <<>> /\ button = FALSE /\ message = NoMessage
    /\ presses = 0

calIdle ==
    /\ manual_holidays = <<>> /\ holidays = <<>> /\ holiday_dates = Unset
    /\ startdate = WindowStart /\ enddate = WindowStart /\ n = 0
    /\ dates_by_month = <<>> /\ cpc = "done"

InitCalendar ==
    /\ manual_holidays \in HolidayTexts
    /\ startdate \in WindowDates
    /\ enddate \in WindowDates
    /\ holidays = <<>>
    /\ holiday_dates = Unset
    /\ n = 0
    /\ dates_by_month = <<>>
    /\ cpc = "split"
    /\ weekIdle
    /\ sesIdle

\* l.79
ProcessHolidays ==
    /\ cpc = "split"
    /\ holidays' = Split(RemoveChar(manual_holidays, " "), ",")
    /\ cpc' = "convert"
    /\ UNCHANGED <<manual_holidays, holiday_dates, startdate, enddate, n,
                   dates_by_month>>
    /\ UNCHANGED <<weekVars, sesVars>>

\* l.82: the list comprehension; a ValueError from any token ends the script
\* run before holiday_dates is bound
ConvertHolidays ==
    /\ cpc = "convert"
    /\ IF \A i \in 1..Len(holidays) : Strptime(holidays[i]) /= ParseError
       THEN /\ holiday_dates' = [i \in 1..Len(holidays) |-> Strptime(holidays[i])]
            /\ cpc' = "bucket"
       ELSE /\ holiday_dates' = holiday_dates
            /\ cpc' = "aborted"
    /\ UNCHANGED <<manual_holidays, holidays, startdate, enddate, n,
                   dates_by_month>>
    /\ UNCHANGED <<weekVars, sesVars>>

\* l.159-171: one iteration of the loop
BucketStep ==
    /\ cpc = "bucket"
    /\ n < DayCount(startdate, enddate)
    /\ LET current_date == AddDays(startdate, n)
       IN  IF InSeq(current_date, holiday_dates)
           THEN dates_by_month' = dates_by_month
           ELSE dates_by_month' =
                    AddToMonth(dates_by_month, StrfMonthYear(current_date),
                               current_date)
    /\ n' = n + 1
    /\ UNCHANGED <<manual_holidays, holidays, holiday_dates, startdate, enddate,
                   cpc>>
    /\ UNCHANGED <<weekVars, sesVars>>

\* l.159: range(day_count) is exhausted
BucketEnd ==
    /\ cpc = "bucket"
    /\ n >= DayCount(startdate, enddate)
    /\ cpc' = "done"
    /\ UNCHANGED <<manual_holidays, holidays, holiday_dates, startdate, enddate,
                   n, dates_by_month>>
    /\ UNCHANGED <<weekVars, sesVars>>

NextCalendar == ProcessHolidays \/ ConvertHolidays \/ BucketStep \/ BucketEnd

SpecCalendar == InitCalendar /\ [][NextCalendar]_vars

(***************************************************************************)
(* Properties of the calendar part                                         *)
(***************************************************************************)
RECURSIVE CountIn(_, _)
CountIn(x, s) ==
    IF s = <<>> THEN 0
    ELSE (IF Head(s) = x THEN 1 ELSE 0) + CountIn(x, Tail(s))

\* the buckets that hold d
BucketsWith(d) == {i \in 1..Len(dates_by_month) : InSeq(d, dates_by_month[i].dates)}

RECURSIVE TimesBucketed(_, _)
TimesBucketed(d, i) ==
    IF i = 0 THEN 0
    ELSE CountIn(d, dates_by_month[i].dates) + TimesBucketed(d, i - 1)

BucketedDates ==
    UNION {{dates_by_month[i].dates[j] : j \in 1..Len(dates_by_month[i].dates)}
           : i \in 1..Len(dates_by_month)}

InRange(d) ==
    /\ ToOrdinal(startdate) <= ToOrdinal(d)
    /\ ToOrdinal(d) <= ToOrdinal(enddate)

IsHoliday(d) == InSeq(d, holiday_dates)

\* the window and a margin of two days on either side of it
DatesAround == {AddDays(WindowStart, k) : k \in (0 - 2)..(WindowLen + 1)}

\* C1: when the bucketing loop has ended, every date of [start, end] that is
\* no holiday is in exactly one bucket, exactly once; no holiday and no date
\* outside [start, end] is in any bucket; and the buckets together hold
\* exactly [start, end] minus the holidays.
C1_MonthlyBucketsPartition ==
    cpc = "done" =>
        /\ \A d \in DatesAround \cup BucketedDates :
              IF InRange(d) /\ ~IsHoliday(d)
              THEN /\ Cardinality(BucketsWith(d)) = 1
                   /\ TimesBucketed(d, Len(dates_by_month)) = 1
              ELSE /\ BucketsWith(d) = {}
                   /\ TimesBucketed(d, Len(dates_by_month)) = 0
        /\ BucketedDates = {d \in DatesAround : InRange(d) /\ ~IsHoliday(d)}

\* C1 witness: a range that spans two months, with a holiday inside it and
\* a bucket of at least two dates.
C1_Witness ==
    /\ cpc = "done"
    /\ Len(dates_by_month) = 2
    /\ \E d \in DatesAround : InRange(d) /\ IsHoliday(d)
    /\ \E i \in 1..Len(dates_by_month) : Len(dates_by_month[i].dates) >= 2

\* a token that is a date written as DDMMYYYY: eight digits that name a day
\* the calendar has
IsDDMMYYYY(tok) ==
    /\ Len(tok) = 8
    /\ \A i \in 1..8 : IsDigit(tok[i])
    /\ IsRealDate(NumVal(SubSeq(tok, 5, 8)), NumVal(SubSeq(tok, 3, 4)),
                  NumVal(SubSeq(tok, 1, 2)))

DateOfDDMMYYYY(tok) ==
    Date(NumVal(SubSeq(tok, 5, 8)), NumVal(SubSeq(tok, 3, 4)),
         NumVal(SubSeq(tok, 1, 2)))

\* the comma-separated tokens of the text, blanks removed, found without
\* the code's split: the pieces between consecutive commas
CommaPositions(s) == {i \in 1..Len(s) : s[i] = ","}

TokensOfText ==
    LET s    == SelectSeq(manual_holidays, LAMBDA c : c /= " ")
        cuts == {0} \cup CommaPositions(s) \cup {Len(s) + 1}
    IN  {SubSeq(s, a + 1, b - 1) :
            <<a, b>> \in {p \in cuts \X cuts :
                            /\ p[1] < p[2]
                            /\ \A c \in cuts : ~(p[1] < c /\ c < p[2])}}

\* C7: holiday parsing is all-or-nothing.  Once l.82 has run: if any token
\* is not a valid DDMMYYYY date the run is aborted, holiday_dates is not
\* bound and nothing is bucketed; if every token is valid the run goes on
\* and the holidays are exactly the dates of the tokens.
C7_HolidayParsingAllOrNothing ==
    cpc \in {"bucket", "done", "aborted"} =>
        IF \E tok \in TokensOfText : ~IsDDMMYYYY(tok)
        THEN /\ cpc = "aborted"
             /\ holiday_dates = Unset
             /\ dates_by_month = <<>>
        ELSE /\ cpc /= "aborted"
             /\ {holiday_dates[i] : i \in 1..Len(holiday_dates)}
                    = {DateOfDDMMYYYY(tok) : tok \in TokensOfText}

(***************************************************************************)
(* group_by_consecutive_weeks, l.174-191                                   *)
(***************************************************************************)
WeekWindowLen == 13

\* 2025-01-01 is a Wednesday; Mondays fall on the 6th and the 13th
WeekWindowStart == Date(2025, 1, 1)

RECURSIVE Ascending(_)
Ascending(S) ==
    IF S = {} THEN <<>>
    ELSE LET k == CHOOSE x \in S : \A y \in S : x <= y
         IN  <<AddDays(WeekWindowStart, k)>> \o Ascending(S \ {k})

RECURSIVE Reverse(_)
Reverse(s) == IF s = <<>> THEN <<>> ELSE Append(Reverse(Tail(s)), Head(s))

\* the arguments: the dates of a window in calendar order with any of them
\* left out (a month's bucket after the holidays are dropped), and the same
\* sequences backwards
WeekInputs ==
    LET asc == {Ascending(S) : S \in SUBSET (0..(WeekWindowLen - 1))}
    IN  asc \cup {Reverse(s) : s \in asc}

\* the condition of l.181 with its first half left out: no cap of 7
ClosesOnMondayOnly(week, date) == Len(week) > 0 /\ Weekday(date) = 0

\* the condition of l.181 with its second half left out: Mondays ignored
ClosesOnSevenOnly(week, date) == Len(week) = 7

\* l.181
ClosesWeek(week, date) ==
    Len(week) = 7 \/ (Len(week) > 0 /\ Weekday(date) = 0)

\* l.180-185: the body of the for loop, on the two locals
AfterDate(ws, week, date) ==
    IF ClosesWeek(week, date)
    THEN [weeks |-> Append(ws, week), current_week |-> <<date>>]
    ELSE [weeks |-> ws, current_week |-> Append(week, date)]

\* l.187-191
AfterLoop(ws, week) == IF week /= <<>> THEN Append(ws, week) ELSE ws

\* the locals after the first k dates of ds
RECURSIVE AfterDates(_, _)
AfterDates(ds, k) ==
    IF k = 0 THEN [weeks |-> <<>>, current_week |-> <<>>]
    ELSE LET before == AfterDates(ds, k - 1)
         IN  AfterDate(before.weeks, before.current_week, ds[k])

\* the function as a whole, as the plate inputs call it (l.200)
group_by_consecutive_weeks(ds) ==
    AfterLoop(AfterDates(ds, Len(ds)).weeks, AfterDates(ds, Len(ds)).current_week)

InitWeeks ==
    /\ dates \in WeekInputs
    /\ idx = 0
    /\ weeks = <<>>
    /\ current_week = <<>>
    /\ wpc = "loop"
    /\ calIdle
    /\ sesIdle

\* l.179-185: one iteration of the for loop
WeekLoopStep ==
    /\ wpc = "loop"
    /\ idx < Len(dates)
    /\ weeks' = AfterDate(weeks, current_week, dates[idx + 1]).weeks
    /\ current_week' = AfterDate(weeks, current_week, dates[idx + 1]).current_week
    /\ idx' = idx + 1
    /\ UNCHANGED <<dates, wpc>>
    /\ UNCHANGED <<calVars, sesVars>>

\* l.187-191: the loop has ended; the last week is appended and weeks returned
WeekReturn ==
    /\ wpc = "loop"
    /\ idx = Len(dates)
    /\ weeks' = AfterLoop(weeks, current_week)
    /\ wpc' = "returned"
    /\ UNCHANGED <<dates, idx, current_week>>
    /\ UNCHANGED <<calVars, sesVars>>

NextWeeks == WeekLoopStep \/ WeekReturn

SpecWeeks == InitWeeks /\ [][NextWeeks]_vars

(***************************************************************************)
(* Properties of group_by_consecutive_weeks                                *)
(***************************************************************************)
RECURSIVE Flatten(_)
Flatten(ws) == IF ws = <<>> THEN <<>> ELSE Head(ws) \o Flatten(Tail(ws))

\* C8: the returned blocks hold between 1 and 7 dates each, and their
\* concatenation in order is the input sequence.
C8_BlocksOneToSevenAndComplete ==
    wpc = "returned" =>
        /\ \A k \in 1..Len(weeks) : Len(weeks[k]) >= 1 /\ Len(weeks[k]) <= 7
        /\ Flatten(weeks) = dates

\* C8 witness: a returned result with a full block of 7 dates followed by
\* another block that does not start on a Monday.
C8_Witness ==
    /\ wpc = "returned"
    /\ \E k \in 1..(Len(weeks) - 1) :
          Len(weeks[k]) = 7 /\ Weekday(weeks[k + 1][1]) /= 0

\* the position in the input of the first date of block k
RECURSIVE BlockStart(_)
BlockStart(k) == IF k = 1 THEN 1 ELSE BlockStart(k - 1) + Len(weeks[k - 1])

\* C9: in the returned blocks a Monday that is not the first input date
\* starts a block, so only the first date of a block can be a Monday; and a
\* block other than the first starts with a Monday or follows a block of 7.
C9_MondayStartsBlock ==
    wpc = "returned" =>
        /\ \A i \in 2..Len(dates) :
              Weekday(dates[i]) = 0 => \E k \in 1..Len(weeks) : BlockStart(k) = i
        /\ \A k \in 1..Len(weeks) : \A j \in 2..Len(weeks[k]) :
              Weekday(weeks[k][j]) /= 0
        /\ \A k \in 2..Len(weeks) :
              Weekday(weeks[k][1]) = 0 \/ Len(weeks[k - 1]) = 7

\* C9 witness: a returned result in which a Monday inside the input starts
\* a block after a block of fewer than 7 dates.
C9_Witness ==
    /\ wpc = "returned"
    /\ \E k \in 2..Len(weeks) :
          Weekday(weeks[k][1]) = 0 /\ Len(weeks[k - 1]) < 7 /\ Len(weeks[k]) >= 2

\* eight consecutive dates, the first a Wednesday
IsWedToWed(s) ==
    /\ Len(s) = 8
    /\ Weekday(s[1]) = 2
    /\ \A i \in 1..7 : s[i + 1] = AddDays(s[i], 1)

\* C10 as stated: Wed..Wed splits into the first 7 dates and the last date.
C10_SevenThenOne ==
    (wpc = "returned" /\ IsWedToWed(dates)) =>
        weeks = <<SubSeq(dates, 1, 7), SubSeq(dates, 8, 8)>>

\* C10 amended: Wed..Wed splits at the Monday, into the first 5 dates
\* (Wed..Sun) and the last 3 (Mon, Tue, Wed).
C10_FiveThenThree ==
    (wpc = "returned" /\ IsWedToWed(dates)) =>
        weeks = <<SubSeq(dates, 1, 5), SubSeq(dates, 6, 8)>>

\* C10 witness: the function has returned for a Wed..Wed input.
C10_Witness == wpc = "returned" /\ IsWedToWed(dates)

(***************************************************************************)
(* The session: plate inputs, the button and generate_records              *)
(***************************************************************************)
\* a Python value of a record: a str or an int (3 and '3' are not equal)
PyStr(v) == [str |-> v]

PyInt(v) == [int |-> v]

\* l.121-129
vehicle_categories ==
    ("AUTO" :> PyInt(3)) @@ ("CARPOOL" :> PyInt(16)) @@ ("MOTORCYCLE" :> PyInt(2))
    @@ ("THROUGH_TRAFFIC" :> PyInt(15)) @@ ("TAXI" :> PyInt(14))
    @@ ("TRUCK" :> PyInt(6)) @@ ("BUS" :> PyInt(13))

\* l.132-136
EZvr_values ==
    ("License Plate Number" :> PyStr("LIC_PLATE")) @@ ("OVERRIDE" :> PyStr("OVERRIDE"))
    @@ ("Max_Total_Weight" :> PyStr("MAX_TOTAL_WGHT"))

\* l.139-143
Ez_Tag ==
    ("LicensePlate" :> PyInt(3)) @@ ("LicensePlateEnding" :> PyInt(5))
    @@ ("LicensePlateStarting" :> PyInt(7))

\* l.146, l.148, l.153: the text inputs, left at their defaults
EZname == PyStr("Pico y Placa")

EZid == PyStr("")

times == PyStr("00:00-23:59")

\* l.85-101; dateft is a str, the other arguments are values
addreg(zname, zid, Vcat, VcatID, EZvr_value, EZkeyid_value, EZkeyname, EZtag, EZval, timeft, dayft, monthft, dateft) ==
    [ENVZONE_NAME |-> zname,
     ENVZONE_ID |-> zid,
     Restriction_id |-> PyStr(""),
     vehicle_category |-> Vcat,
     vehicle_category_id |-> VcatID,
     EZ_VR_VALUES |-> EZvr_value,
     EZ_KEY_ID |-> EZkeyid_value,
     EZ_KEY_NAMES |-> EZkeyname,
     EZ_ADDT_TAG |-> EZtag,
     EZ_VALUES |-> EZval,
     timeFrom_timeTo |-> timeft,
     dayFrom_dayTo |-> dayft,
     monthFrom_monthTo |-> monthft,
     dateFrom_dateTo |-> PyStr(dateft \o "-" \o dateft)]

\* l.104-105
monthm(varmonth) == StrfMonth(varmonth)

\* l.108-118
day_map ==
    ("Monday" :> "02") @@ ("Tuesday" :> "03") @@ ("Wednesday" :> "04")
    @@ ("Thursday" :> "05") @@ ("Friday" :> "06") @@ ("Saturday" :> "07")
    @@ ("Sunday" :> "01")

dayy(varname) == IF varname \in DOMAIN day_map THEN day_map[varname] ELSE ""

\* l.216: the plates of a text area
RECURSIVE StrippedNonEmpty(_)
StrippedNonEmpty(toks) ==
    IF toks = <<>> THEN <<>>
    ELSE (IF Strip(Head(toks)) /= <<>> THEN <<Str(Strip(Head(toks)))>> ELSE <<>>)
         \o StrippedNonEmpty(Tail(toks))

PlatesOf(plate_input) == StrippedNonEmpty(Split(plate_input, ","))

\* l.199-209: the dates in the order the text areas are made, month by
\* month, week by week
RECURSIVE DatesInWidgetOrder(_)
DatesInWidgetOrder(dbm) ==
    IF dbm = <<>> THEN <<>>
    ELSE Flatten(group_by_consecutive_weeks(Head(dbm).dates))
         \o DatesInWidgetOrder(Tail(dbm))

\* l.195-219: the dict, in insertion order, as a sequence of
\* [date |-> date, plates |-> its non-empty list]
RECURSIVE CollectPlates(_, _)
CollectPlates(ds, w) ==
    IF ds = <<>> THEN <<>>
    ELSE (IF PlatesOf(w[Head(ds)]) /= <<>>
          THEN <<[date |-> Head(ds), plates |-> PlatesOf(w[Head(ds)])]>>
          ELSE <<>>)
         \o CollectPlates(Tail(ds), w)

\* l.234-237 for one plate: one record per selected category
RECURSIVE RecordsOfPlate(_, _, _, _, _)
RecordsOfPlate(date, val, cats, tag, vr) ==
    IF cats = <<>> THEN <<>>
    ELSE LET EZvr_value    == EZvr_values[vr]
             EZkeyid_value == Ez_Tag[tag]
             EZkeyname     == PyStr(vr)
             day_ft        == PyStr(dayy(StrfDayName(date)))
             month_ft      == PyStr(monthm(date))
             category      == Head(cats)
             VcatID        == vehicle_categories[category]
         IN  <<addreg(EZname, EZid, PyStr(category), VcatID, EZkeyname,
                      EZvr_value, PyStr(tag), EZkeyid_value, PyStr(val), times,
                      day_ft, month_ft, StrfYmd(date))>>
             \o RecordsOfPlate(date, val, Tail(cats), tag, vr)

\* l.233-237 for one date
RECURSIVE RecordsOfDate(_, _, _, _, _)
RecordsOfDate(date, plates, cats, tag, vr) ==
    IF plates = <<>> THEN <<>>
    ELSE RecordsOfPlate(date, Head(plates), cats, tag, vr)
         \o RecordsOfDate(date, Tail(plates), cats, tag, vr)

\* l.229-237: what the loops append, in order
RECURSIVE RecordsOfDays(_, _, _, _)
RecordsOfDays(ppd, cats, tag, vr) ==
    IF ppd = <<>> THEN <<>>
    ELSE RecordsOfDate(Head(ppd).date, Head(ppd).plates, cats, tag, vr)
         \o RecordsOfDays(Tail(ppd), cats, tag, vr)

\* a build that skips a record equal to one already in the collection (what
\* l.237 would be with a membership test before the append)
RECURSIVE AppendNew(_, _)
AppendNew(recs, new) ==
    IF new = <<>> THEN recs
    ELSE AppendNew(IF InSeq(Head(new), recs) THEN recs ELSE Append(recs, Head(new)),
                   Tail(new))

generate_records_unique(recs, ppd, cats, tag, vr) ==
    AppendNew(recs, RecordsOfDays(ppd, cats, tag, vr))

\* l.224-237: st.session_state.records_weekdays after generate_records()
generate_records(recs, ppd, cats, tag, vr) ==
    recs \o RecordsOfDays(ppd, cats, tag, vr)

\* ---- inputs of the session
MaxPresses == 2

SessionDays == 2

\* 2025-01-30 is a Thursday: the sessions start on a Thursday, Friday,
\* Saturday or Sunday; the one that starts on 2025-01-31 spans two months and
\* the one that starts on 2025-02-02 spans two weeks
SessionStarts == {AddDays(Date(2025, 1, 30), k) : k \in 0..3}

\* "ABC123" and " ABC123 ,XYZ789, "
PlateTexts ==
    { <<"A", "B", "C", "1", "2", "3">>,
      <<" ", "A", "B", "C", "1", "2", "3", " ", ",", "X", "Y", "Z", "7", "8", "9", ",", " ">> }

CategorySelections == { <<>>, <<"TAXI">>, <<"TAXI", "AUTO">> }

\* l.149: the select box, left at its first option
VrSelections == {"License Plate Number"}

\* l.157-171 as a whole: the dict after the first k days of the range
RECURSIVE BucketsAfter(_, _, _)
BucketsAfter(s, hol, k) ==
    IF k <= 0 THEN <<>>
    ELSE LET current_date == AddDays(s, k - 1)
         IN  IF InSeq(current_date, hol) THEN BucketsAfter(s, hol, k - 1)
             ELSE AddToMonth(BucketsAfter(s, hol, k - 1),
                             StrfMonthYear(current_date), current_date)

\* The session starts with the script run once: the holiday text holds New
\* Year's Day, every plate text area is empty, the collection is empty
\* (l.221-222), and the button was not pressed.
Init ==
    /\ manual_holidays = Token(1, 2, 1, 2, 2025, 4)
    /\ holidays = <<manual_holidays>>
    /\ holiday_dates = <<Strptime(manual_holidays)>>
    /\ startdate \in SessionStarts
    /\ enddate = AddDays(startdate, SessionDays - 1)
    /\ n = DayCount(startdate, enddate)
    /\ dates_by_month = BucketsAfter(startdate, holiday_dates, n)
    /\ cpc = "done"
    /\ weekIdle
    /\ plate_text \in PlateTexts
    /\ widgets = [d \in BucketedDates |-> <<>>]
    /\ plates_per_day = <<>>
    /\ selected_categories \in CategorySelections
    /\ EZtag_selected \in DOMAIN Ez_Tag
    /\ EZvr_selected \in VrSelections
    /\ records_weekdays = <<>>
    /\ button = FALSE
    /\ message = NoMessage
    /\ presses = 0

\* The user types the text into a plate text area, or clears one: the script
\* runs again, button not pressed (l.239 is False), and shows no message.
EditPlates ==
    /\ \E d \in DOMAIN widgets : \E text \in {<<>>, plate_text} :
          /\ widgets[d] /= text
          /\ widgets' = [widgets EXCEPT ![d] = text]
    /\ plates_per_day' = CollectPlates(DatesInWidgetOrder(dates_by_month), widgets')
    /\ button' = FALSE
    /\ message' = NoMessage
    /\ UNCHANGED <<plate_text, selected_categories, EZtag_selected,
                   EZvr_selected, records_weekdays, presses>>
    /\ UNCHANGED <<calVars, weekVars>>

\* The user presses "Generate DataFrame": the script runs again with the
\* same inputs, l.239 is True, l.240 and l.241 run.
PressGenerate ==
    /\ presses < MaxPresses
    /\ plates_per_day' = CollectPlates(DatesInWidgetOrder(dates_by_month), widgets)
    /\ button' = TRUE
    /\ records_weekdays' =
          generate_records(records_weekdays, plates_per_day', selected_categories,
                           EZtag_selected, EZvr_selected)
    /\ message' = [kind |-> "success", text |-> "Records generated successfully."]
    /\ presses' = presses + 1
    /\ UNCHANGED <<plate_text, widgets, selected_categories, EZtag_selected,
                   EZvr_selected>>
    /\ UNCHANGED <<calVars, weekVars>>

Next == EditPlates \/ PressGenerate

Spec == Init /\ [][Next]_vars

(***************************************************************************)
(* Properties of the session                                               *)
(***************************************************************************)
\* C2: the result collection never holds two records equal in all 14 fields.
C2_NoDuplicateRecords ==
    \A i, j \in 1..Len(records_weekdays) :
        i /= j => records_weekdays[i] /= records_weekdays[j]

\* the number of plates entered on the first i dates of ppd
RECURSIVE PlatesUpTo(_, _)
PlatesUpTo(ppd, i) ==
    IF i = 0 THEN 0 ELSE PlatesUpTo(ppd, i - 1) + Len(ppd[i].plates)

TwiceDate(d) == PyStr(StrfYmd(d) \o "-" \o StrfYmd(d))

\* a script run with the button pressed
IsPress == presses' = presses + 1

C4_EmptyBuildRefused ==
    [][(IsPress /\ plates_per_day' = <<>>) =>
        /\ message'.kind \in {"error", "warning"}
        /\ records_weekdays' = records_weekdays
      ]_vars

\* C5: after one press from the empty collection with a single plate on a
\* single date and the category TAXI, the collection is one record with
\* vehicle_category TAXI, vehicle_category_id 14, EZ_KEY_ID the code of the
\* selected tag (3, 5 or 7), EZ_VALUES the plate and dateFrom_dateTo the
\* date twice.
C5_SingleTaxiRecord ==
    ( /\ button
      /\ presses = 1
      /\ Len(plates_per_day) = 1
      /\ Len(plates_per_day[1].plates) = 1
      /\ selected_categories = <<"TAXI">> ) =>
        /\ Len(records_weekdays) = 1
        /\ records_weekdays[1].vehicle_category = PyStr("TAXI")
        /\ records_weekdays[1].vehicle_category_id = PyInt(14)
        /\ records_weekdays[1].EZ_KEY_ID =
              PyInt(CASE EZtag_selected = "LicensePlate" -> 3
                      [] EZtag_selected = "LicensePlateEnding" -> 5
                      [] EZtag_selected = "LicensePlateStarting" -> 7)
        /\ records_weekdays[1].EZ_VALUES = PyStr(plates_per_day[1].plates[1])
        /\ records_weekdays[1].dateFrom_dateTo = TwiceDate(plates_per_day[1].date)

\* the day codes, Monday first: Sunday is 01, Monday 02, ... Saturday 07
DayCodes == <<"02", "03", "04", "05", "06", "07", "01">>

\* C6: every record built for a date has dayFrom_dayTo "DD-DD" with DD the
\* code of the date's weekday, and monthFrom_monthTo "MM-MM" with MM the
\* date's two-digit month.
C6_DayAndMonthRanges ==
    \A k \in 1..Len(records_weekdays) : \A d \in DOMAIN widgets :
        records_weekdays[k].dateFrom_dateTo = TwiceDate(d) =>
            /\ records_weekdays[k].dayFrom_dayTo =
                  PyStr(DayCodes[Weekday(d) + 1] \o "-" \o DayCodes[Weekday(d) + 1])
            /\ records_weekdays[k].monthFrom_monthTo =
                  PyStr(Pad2(d.month) \o "-" \o Pad2(d.month))

====
